---- MODULE Spec2Model ----
(***************************************************************************)
(* Model of the particle-filter node of scripts/pf.py.                     *)
(*                                                                         *)
(* Number representation.  The program computes in floating point; the    *)
(* model computes in fixed point:                                          *)
(*   - lengths (map, particle and odometry coordinates, lidar ranges) are  *)
(*     integers in centimetres, so 0.01 is 1 and 3.0 is 300;               *)
(*   - angles are integers in thousandths of a degree, so pi is 180000     *)
(*     and 0.05 rad (2864.79 thousandths of a degree) is crossed between   *)
(*     2864 and 2865;                                                      *)
(*   - an un-normalised weight is an integer count of 1/WOne, and a        *)
(*     normalised weight is the exact quotient [n, d] (n over d), with     *)
(*     d = 0 standing for the NaN that 0.0 / 0.0 yields.                   *)
(* Python's None is the empty sequence << >>.                              *)
(***************************************************************************)
EXTENDS Integers, Sequences, FiniteSets, TLC

VARIABLES
    map_obstacles,      \* self.map_obstacles
    particles,          \* self.particles
    last_pose,          \* self.last_pose
    last_lidar,         \* self.last_lidar (the ranges of the scan)
    is_updating,        \* self.is_updating
    last_update_real,   \* self.last_update_real
    now,                \* the clock rospy.Time.now() reads
    pc,                 \* per odometry callback thread: position in update()
    msg,                \* per thread: the Odometry message being handled
    delta_pose,         \* per thread: the local delta_pose
    cycle_stamp,        \* history: the last stamp update() passed to set_particles
    sw_in,              \* sensor-model probe: the particle handed in
    sw_out              \* sensor-model probe: the result

vars == <<map_obstacles, particles, last_pose, last_lidar, is_updating,
          last_update_real, now, pc, msg, delta_pose, cycle_stamp, sw_in, sw_out>>

None == << >>

----------------------------------------------------------------------------
(* Bounds of the model *)

\* The model's population size; the program's NUM_PARTICLES is 300.
NUM_PARTICLES == 2
\* Largest clock value and message stamp.
MaxTime == 1

----------------------------------------------------------------------------
(* Arithmetic helpers *)

Abs(a) == IF a < 0 THEN -a ELSE a

RECURSIVE ISqrtIn(_, _, _)
\* the r in lo .. hi with r * r <= n < (r + 1) * (r + 1), by bisection
ISqrtIn(n, lo, hi) ==
    IF lo = hi THEN lo
    ELSE LET mid == (lo + hi + 1) \div 2
         IN  IF mid * mid <= n THEN ISqrtIn(n, mid, hi) ELSE ISqrtIn(n, lo, mid - 1)

\* np.sqrt on a square of centimetres, to the centimetre below.
Sqrt(n) == ISqrtIn(n, 0, 4096)

PI == 180000
TWO_PI == 2 * PI

\* First-quadrant arctangents of the lattice ratios a/b, thousandths of a degree.
AtanTable ==
    { <<0, 1, 0>>,     <<1, 0, 90000>>, <<1, 1, 45000>>,
      <<1, 2, 26565>>, <<2, 1, 63435>>, <<1, 3, 18435>>, <<3, 1, 71565>>,
      <<2, 3, 33690>>, <<3, 2, 56310>>, <<1, 4, 14036>>, <<4, 1, 75964>>,
      <<1, 5, 11310>>, <<5, 1, 78690>>, <<2, 5, 21801>>, <<5, 2, 68199>>,
      <<3, 4, 36870>>, <<4, 3, 53130>>, <<3, 5, 30964>>, <<5, 3, 59036>>,
      <<4, 5, 38660>>, <<5, 4, 51340>>, <<1, 6, 9462>>,  <<6, 1, 80538>>,
      <<5, 6, 39806>>, <<6, 5, 50194>> }

AtanQ1(a, b) ==
    IF a = 0 THEN 0
    ELSE (CHOOSE e \in AtanTable : a * e[2] = b * e[1] /\ e[1] > 0)[3]

\* np.arctan2(y, x), in (-PI, PI]; arctan2(0, 0) is 0.
arctan2(y, x) ==
    LET q == AtanQ1(Abs(y), Abs(x))
    IN  IF x >= 0 /\ y >= 0 THEN q
        ELSE IF x < 0 /\ y >= 0 THEN PI - q
        ELSE IF x < 0 /\ y < 0 THEN q - PI
        ELSE -q

\* np.arctan2(np.sin(a), np.cos(a)): a brought back into (-PI, PI].  (At an odd
\* multiple of PI the floating-point result is +PI or -PI; both degrees index
\* the same bucket, 180.)
angle_normalize(a) == ((a + PI - 1) % TWO_PI) - (PI - 1)

\* np.rad2deg(...).round(): whole degrees, halves to the even neighbour.
rad2deg_round(a) ==
    LET q == a \div 1000
        r == a % 1000
    IN  IF r < 500 THEN q
        ELSE IF r > 500 THEN q + 1
        ELSE IF q % 2 = 0 THEN q ELSE q + 1

SetMin(S) == CHOOSE m \in S : \A e \in S : m <= e

RECURSIVE SumRange(_, _, _)
\* sum of f[lo], ..., f[hi]
SumRange(f, lo, hi) ==
    IF lo > hi THEN 0
    ELSE IF lo = hi THEN f[lo]
    ELSE LET mid == (lo + hi) \div 2
         IN  SumRange(f, lo, mid) + SumRange(f, mid + 1, hi)

RECURSIVE SeqSum(_)
SeqSum(s) == IF s = << >> THEN 0 ELSE Head(s) + SeqSum(Tail(s))

----------------------------------------------------------------------------
(* The map *)

\* Occupancy grids the static_map service may return (row-major data).
\* One wall cell 4 m along the x axis: in range from x = 1 m, beyond it from x = 0.
GridWall ==
    [width |-> 5, height |-> 1, resolution |-> 100, origin_x |-> 0, origin_y |-> 0,
     data |-> <<0, -1, 0, 0, 100>>]
\* Two occupied cells off the axes.
GridCorner ==
    [width |-> 4, height |-> 2, resolution |-> 100, origin_x |-> 0, origin_y |-> 0,
     data |-> <<0, 0, 0, 100,   0, 0, 100, -1>>]
Grids == {GridWall, GridCorner}

\* preprocess_map: the map-frame coordinates of the occupied cells.
preprocess_map(map) ==
    { << (x * map.resolution) + map.origin_x, (y * map.resolution) + map.origin_y >> :
        <<x, y>> \in { c \in (0 .. map.width - 1) \X (0 .. map.height - 1) :
                        map.data[(c[1] + c[2] * map.width) + 1] > 0 } }

----------------------------------------------------------------------------
(* Sensor likelihood model *)

\* (1 / diff) ** 3 for diff in centimetres, in un-normalised weight units: the
\* unit is chosen so that the largest difference on the arena, 3 m, still
\* yields a positive term.
InvCube(diff) == (27 * 100 * 100 * 100) \div (diff * diff * diff)
\* The value of 1.0 in un-normalised weight units.
WOne == InvCube(100)

Particle(x, y, theta, weight) == [x |-> x, y |-> y, theta |-> theta, weight |-> weight]

\* The degree the obstacle at o falls on, seen from the particle (lines 236-250).
phi(o, particle) ==
    LET sx == o[1] - particle.x
        sy == o[2] - particle.y
        phi_rad == arctan2(sy, sx) + particle.theta
    IN  rad2deg_round(angle_normalize(phi_rad))

\* The range the obstacle at o contributes (lines 239-241, 270-271).
rho(o, particle) ==
    LET sx == o[1] - particle.x
        sy == o[2] - particle.y
        r == Sqrt((sx * sx) + (sy * sy))
    IN  IF r > 300 THEN 0 ELSE r

\* expected_lidar[idx] with a negative idx counts from the end of the array.
ArrayIndex(idx) == IF idx < 0 THEN idx + 360 ELSE idx

\* The bucket of expected_lidar the obstacle at o is written to (line 262, 273).
bucket(o, particle) == ArrayIndex(phi(o, particle))

\* Lines 257-276: per degree the smallest range, 0.0 where no obstacle falls.
expected_lidar(obstacles, particle) ==
    LET hits == { <<bucket(o, particle), rho(o, particle)>> : o \in obstacles }
    IN  [ b \in 0 .. 359 |->
            LET S == { h[2] : h \in { g \in hits : g[1] = b } }
            IN  IF S = {} THEN 0 ELSE SetMin(S) ]

\* LaserScan.ranges: the 361 readings of a scan, the last repeating the first.
ranges(scan) == [ i \in 1 .. 361 |-> IF i = 1 \/ i = 361 THEN scan[1] ELSE scan[2] ]

\* Lines 231, 286-293; actual_lidar drops the last reading.
lidar_weight(scan, expected) ==
    LET readings == ranges(scan)
        actual_lidar == [ b \in 0 .. Len(readings) - 2 |-> readings[b + 1] ]
        diff_lidar == [ b \in 0 .. 359 |-> Abs(actual_lidar[b] - expected[b]) ]
        terms == [ b \in 0 .. 359 |->
                     IF diff_lidar[b] > 0 THEN InvCube(diff_lidar[b]) ELSE 0 ]
    IN  SumRange(terms, 0, 359)

calculate_sensor_weight(particle, lidar, obstacles) ==
    IF lidar = None THEN WOne
    ELSE lidar_weight(lidar, expected_lidar(obstacles, particle))

----------------------------------------------------------------------------
(* Value domains of the model *)

\* Particle coordinates lie on a 1 m lattice inside the arena.
ArenaXs == {0, 100}
ArenaYs == {0}
\* Particle headings and sampled rotations are multiples of a half turn.
QUARTER == PI \div 2
Rotations == {-PI, 0, PI}
HalfTurns == { k * PI : k \in -2 .. 3 }
Displacements == {-100, 0, 100}

\* Odometry poses (odom frame): coordinates to the centimetre.
OdomPoses == { <<0, 0, 0>>, <<1, 0, 0>>, <<0, 0, QUARTER>> }

\* A LaserScan is held as <<ahead, rest>>: the reading at 0 degrees and the
\* reading everywhere else.  No return anywhere (the lidar reports 0.0); a
\* 3 m return dead ahead; a round room of radius 2 m.
ScanNone == <<0, 0>>
ScanAhead == <<300, 0>>
ScanRoom == <<200, 200>>
\* The scans the node receives while it runs.
Scans == {ScanNone}

Threads == {1, 2}

----------------------------------------------------------------------------
(* helper_functions: TFHelper.angle_diff, sample_normal, sample_normal_error *)

\* TFHelper.angle_diff(a, b): the signed difference a - b, in (-PI, PI].
angle_diff(a, b) == angle_normalize(a - b)

Clamp(v, lo, hi) == IF v < lo THEN lo ELSE IF v > hi THEN hi ELSE v

\* sample_normal(mean, sigma, noise, (lo, hi)): the values a draw can return,
\* on the model's lattice `support`: a draw within `spread` of the mean,
\* clamped to the window.  sigma and noise shape the distribution; spread is
\* how far on the lattice it reaches.
sample_normal(mean, spread, lo, hi, support) ==
    { Clamp(v, lo, hi) : v \in { u \in support : Abs(u - mean) <= spread } }

\* The theta draw is then wrapped to (-PI, PI].
sample_theta(mean, spread, support) ==
    { angle_normalize(v) : v \in sample_normal(mean, spread, -PI, PI, support) }

\* sample_normal_error(value, sigma): a draw around value, no window.
sample_normal_error(value, spread, support) ==
    { v \in support : Abs(v - value) <= spread }

----------------------------------------------------------------------------
(* Weights *)

Weight(n, d) == [n |-> n, d |-> d]
IsNaN(w) == w.d = 0
IsPositive(w) == w.d > 0 /\ w.n > 0

\* normalize_weights: p.weight / total; total is 0.0 when every sensor weight
\* is, and 0.0 / 0.0 on numpy floats is NaN.
normalize_weights(ps) ==
    LET total == SeqSum([ i \in 1 .. Len(ps) |-> ps[i].weight ])
    IN  [ i \in 1 .. Len(ps) |->
            Particle(ps[i].x, ps[i].y, ps[i].theta, Weight(ps[i].weight, total)) ]

\* np.average(..., weights=[p.weight for p in particles]) raises
\* ZeroDivisionError when the weights sum to zero.
average_raises(ps) == SeqSum([ i \in 1 .. Len(ps) |-> ps[i].weight ]) = 0

----------------------------------------------------------------------------
(* Resampling *)

AnyNaN(ws) == \E i \in 1 .. Len(ws) : IsNaN(ws[i])
AnyPositive(ws) == \E i \in 1 .. Len(ws) : IsPositive(ws[i])

\* random.choices(population, weights=ws, k=k) as index sequences.  With a
\* positive finite total every pick has positive weight.  With a NaN total
\* (or a zero one) the bisection falls on the last element on the Python
\* versions that do not reject the total.
random_choices(ws, k) ==
    IF AnyNaN(ws) \/ ~AnyPositive(ws)
    THEN { [ j \in 1 .. k |-> Len(ws) ] }
    ELSE [ 1 .. k -> { i \in 1 .. Len(ws) : IsPositive(ws[i]) } ]

\* random.choices raises ValueError on a zero total (Python >= 3.9) and on a
\* non-finite total (Python >= 3.11).
random_choices_raises(ws) == AnyNaN(ws) \/ ~AnyPositive(ws)

\* The jittered copies one choice can produce (lines 381-389), weight 1.
jitter(choice) ==
    { Particle(x, y, theta, WOne) :
        x \in sample_normal(choice.x, 100, choice.x - 500, choice.x + 500, ArenaXs),
        y \in sample_normal(choice.y, 100, choice.y - 500, choice.y + 500, ArenaYs),
        theta \in sample_theta(choice.theta, 0, HalfTurns) }

RECURSIVE SeqsOver(_, _)
\* the sequences s of length n with s[i] \in F[i]
SeqsOver(F, n) ==
    IF n = 0 THEN { << >> }
    ELSE { Append(s, e) : s \in SeqsOver(F, n - 1), e \in F[n] }

\* A resampler that returns one jittered particle per input particle.
sample_particles_per_input(ps, k) ==
    UNION { SeqsOver([ j \in 1 .. Len(ps) |-> jitter(ps[c[j]]) ], Len(ps)) :
              c \in random_choices([ i \in 1 .. Len(ps) |-> ps[i].weight ], Len(ps)) }

\* sample_particles: every list of k particles it can return.
sample_particles(ps, k) ==
    UNION { SeqsOver([ j \in 1 .. k |-> jitter(ps[c[j]]) ], k) :
              c \in random_choices([ i \in 1 .. Len(ps) |-> ps[i].weight ], k) }

----------------------------------------------------------------------------
(* Motion *)

cos(a) == CASE a % TWO_PI = 0 -> 1
            [] a % TWO_PI = PI -> -1
            [] OTHER -> 0
sin(a) == CASE a % TWO_PI = QUARTER -> 1
            [] a % TWO_PI = 3 * QUARTER -> -1
            [] OTHER -> 0

\* apply_motion for one draw (dx_robot, dy_robot, dtheta) of the noise.
apply_motion_draw(ps, dx_robot, dy_robot, dtheta) ==
    LET dx == (cos(dtheta) * dx_robot) - (sin(dtheta) * dy_robot)
        dy == (sin(dtheta) * dx_robot) + (cos(dtheta) * dy_robot)
    IN  [ i \in 1 .. Len(ps) |->
            Particle(ps[i].x + dx, ps[i].y + dy, ps[i].theta - dtheta, ps[i].weight) ]

\* apply_motion: every list it can return.
apply_motion(ps, delta) ==
    { apply_motion_draw(ps, dx_robot, dy_robot, dtheta) :
        dx_robot \in sample_normal_error(delta[1], 100, Displacements),
        dy_robot \in sample_normal_error(delta[2], 100, Displacements),
        dtheta \in sample_normal_error(delta[3], QUARTER, Rotations) }

InArena(ps) == \A i \in 1 .. Len(ps) : ps[i].x \in ArenaXs /\ ps[i].y \in ArenaYs

\* calculate_sensor_weight is a pure function of the particle's pose, the scan
\* and the map: it is tabulated once over the arena.
sensor_weight_table ==
    { << key, calculate_sensor_weight(Particle(key[1][1], key[1][2], key[1][3], WOne),
                                      key[2], key[3]) >> :
        key \in (ArenaXs \X ArenaYs \X HalfTurns) \X ({None} \cup Scans)
                  \X { preprocess_map(g) : g \in Grids } }

tabulated_sensor_weight(particle, lidar, obstacles) ==
    (CHOOSE e \in sensor_weight_table :
        e[1] = << <<particle.x, particle.y, particle.theta>>, lidar, obstacles >>)[2]

\* Lines 201-204.
reweigh(ps, lidar, obstacles) ==
    [ i \in 1 .. Len(ps) |->
        Particle(ps[i].x, ps[i].y, ps[i].theta,
                 tabulated_sensor_weight(ps[i], lidar, obstacles)) ]

----------------------------------------------------------------------------
(* The node *)

Stamps == 0 .. MaxTime
PoseTuple(x, y, theta) == <<x, y, theta>>
OdomMsgs == [stamp : Stamps, pose : OdomPoses]

\* The state __init__ leaves (lines 103-134), the map included.  The
\* attributes last_update and update_count are written and never read; the
\* model does not carry them.
Init ==
    /\ map_obstacles = preprocess_map(GridWall)
    /\ particles = None
    /\ last_pose = None
    /\ last_lidar = None
    /\ is_updating = FALSE
    /\ now = 0
    /\ last_update_real = 0
    /\ pc = [t \in Threads |-> "idle"]
    /\ msg = [t \in Threads |-> None]
    /\ delta_pose = [t \in Threads |-> None]
    /\ cycle_stamp = -1
    /\ sw_in = None
    /\ sw_out = None

probe_vars == <<sw_in, sw_out>>
env_vars == <<map_obstacles, now>>
thread_vars == <<pc, msg, delta_pose>>

\* The clock advances.
Tick ==
    /\ now < MaxTime
    /\ now' = now + 1
    /\ UNCHANGED <<map_obstacles, particles, last_pose, last_lidar, is_updating,
                   last_update_real, thread_vars, cycle_stamp, probe_vars>>

\* on_lidar (lines 438-439), for a scan among scans.
on_lidar(scans) ==
    /\ \E scan \in scans : last_lidar' = scan
    /\ UNCHANGED <<env_vars, particles, last_pose, is_updating, last_update_real,
                   thread_vars, cycle_stamp, probe_vars>>

\* update_initial_pose (lines 136-147), set_particles included, for a pose
\* among poses; the weights of a fresh sample are all 1, so np.average
\* does not raise.
update_initial_pose(poses) ==
    /\ \E pose \in poses :
         \E ps \in sample_particles(
                     <<Particle(pose[1], pose[2], pose[3], Weight(1, 1))>>, NUM_PARTICLES) :
            particles' = normalize_weights(ps)
    /\ UNCHANGED <<env_vars, last_pose, last_lidar, is_updating, last_update_real,
                   thread_vars, cycle_stamp, probe_vars>>

\* update, line 150: an Odometry message among msgs reaches the callback on
\* thread t and the guard is evaluated; a dropped message leaves no trace.
Guard(t, msgs) ==
    /\ pc[t] = "idle"
    /\ \E m \in msgs :
         IF is_updating \/ m.stamp < last_update_real
         THEN UNCHANGED <<pc, msg>>
         ELSE /\ pc' = [pc EXCEPT ![t] = "set"]
              /\ msg' = [msg EXCEPT ![t] = m]
    /\ UNCHANGED <<env_vars, particles, last_pose, last_lidar, is_updating,
                   last_update_real, delta_pose, cycle_stamp, probe_vars>>

\* The test of line 184: TRUE when update returns without a cycle.
\* sqrt(dx^2 + dy^2) < 0.01 is dx^2 + dy^2 < 1 in centimetres.
below_threshold(delta) ==
    ((delta[1] * delta[1]) + (delta[2] * delta[2])) < 1 /\ delta[3] < 2865

\* update, lines 152-185: the flag is set, then the first-pose and
\* minimum-motion tests.  A return goes through the finally clause.
Check(t) ==
    /\ pc[t] = "set"
    /\ is_updating' = TRUE
    /\ LET cur_pose == msg[t].pose
       IN  IF last_pose = None \/ particles = None
           THEN /\ last_pose' = cur_pose
                /\ pc' = [pc EXCEPT ![t] = "finally"]
                /\ UNCHANGED delta_pose
           ELSE LET delta == PoseTuple(last_pose[1] - cur_pose[1],
                                       last_pose[2] - cur_pose[2],
                                       angle_diff(last_pose[3], cur_pose[3]))
                IN  /\ delta_pose' = [delta_pose EXCEPT ![t] = delta]
                    /\ pc' = [pc EXCEPT ![t] =
                                IF below_threshold(delta) THEN "finally" ELSE "cycle"]
                    /\ UNCHANGED last_pose
    /\ UNCHANGED <<env_vars, particles, last_lidar, last_update_real, msg,
                   cycle_stamp, probe_vars>>

\* The particle lists lines 193-204 can produce from the stored set.  Of the
\* draws of the motion noise, those that keep every particle on the arena's
\* lattice are followed.
cycle_results(stored, delta, lidar, obstacles) ==
    { reweigh(moved, lidar, obstacles) :
        moved \in { m \in UNION { apply_motion(ps, delta) :
                                    ps \in sample_particles(stored, NUM_PARTICLES) } :
                    InArena(m) } }

\* update, lines 193-210, set_particles (lines 393-429) included: resample,
\* move, re-weigh, store.  When random.choices raises nothing is stored; when
\* np.average raises, self.particles is already replaced and
\* last_update_real is not written.
Cycle(t) ==
    /\ pc[t] = "cycle"
    /\ \/ /\ \E ps \in cycle_results(particles, delta_pose[t], last_lidar, map_obstacles) :
                /\ particles' = normalize_weights(ps)
                /\ last_update_real' = IF average_raises(ps) THEN last_update_real ELSE now
          /\ last_pose' = msg[t].pose
          /\ cycle_stamp' = msg[t].stamp
       \/ /\ random_choices_raises([ i \in 1 .. Len(particles) |-> particles[i].weight ])
          /\ UNCHANGED <<particles, last_pose, last_update_real, cycle_stamp>>
    /\ pc' = [pc EXCEPT ![t] = "finally"]
    /\ UNCHANGED <<env_vars, last_lidar, is_updating, msg, delta_pose, probe_vars>>

\* An exit that lowers the flag only when the invocation entered a cycle: the
\* reset at the end of the try body, which the early returns skip.
Finally_after_cycle_only(t) ==
    /\ pc[t] = "finally"
    /\ is_updating' = IF delta_pose[t] # None /\ ~below_threshold(delta_pose[t])
                       THEN FALSE ELSE is_updating
    /\ pc' = [pc EXCEPT ![t] = "idle"]
    /\ msg' = [msg EXCEPT ![t] = None]
    /\ delta_pose' = [delta_pose EXCEPT ![t] = None]
    /\ UNCHANGED <<env_vars, particles, last_pose, last_lidar, last_update_real,
                   cycle_stamp, probe_vars>>

\* update, lines 211-215: the finally clause, then the return, which ends the
\* invocation's locals.
Finally(t) ==
    /\ pc[t] = "finally"
    /\ is_updating' = FALSE
    /\ pc' = [pc EXCEPT ![t] = "idle"]
    /\ msg' = [msg EXCEPT ![t] = None]
    /\ delta_pose' = [delta_pose EXCEPT ![t] = None]
    /\ UNCHANGED <<env_vars, particles, last_pose, last_lidar, last_update_real,
                   cycle_stamp, probe_vars>>

\* One odometry publisher: rospy runs update() on one thread.
InitialPoses == ArenaXs \X ArenaYs \X {0}

Next ==
    \/ Tick
    \/ on_lidar(Scans)
    \/ update_initial_pose(InitialPoses)
    \/ Guard(1, OdomMsgs)
    \/ Check(1)
    \/ Cycle(1)
    \/ Finally(1)

Spec == Init /\ [][Next]_vars

\* Two odometry publishers: rospy runs update() on one thread per connection.
\* Their messages carry one stamp and the poses of a robot driving ahead.
RaceMsgs == [stamp : {0}, pose : {<<0, 0, 0>>, <<1, 0, 0>>}]

NextRace ==
    \/ on_lidar(Scans)
    \/ update_initial_pose({<<0, 0, 0>>})
    \/ \E t \in Threads : Guard(t, RaceMsgs)
    \/ \E t \in Threads : Check(t)
    \/ \E t \in Threads : Cycle(t)
    \/ \E t \in Threads : Finally(t)

SpecRace == Init /\ [][NextRace]_vars


----------------------------------------------------------------------------
(* The sensor likelihood model on its own *)

ProbeScans == {ScanNone, ScanAhead, ScanRoom}
ProbeParticles ==
    { Particle(x, y, theta, WOne) :
        x \in {0, 100}, y \in {0, 100}, theta \in {-QUARTER, 0, 500, QUARTER, PI} }

SensorInit ==
    /\ map_obstacles \in { preprocess_map(g) : g \in Grids }
    /\ last_lidar \in ProbeScans
    /\ sw_in \in ProbeParticles
    /\ sw_out = None
    /\ particles = None
    /\ last_pose = None
    /\ is_updating = FALSE
    /\ now = 0
    /\ last_update_real = 0
    /\ pc = [t \in Threads |-> "idle"]
    /\ msg = [t \in Threads |-> None]
    /\ delta_pose = [t \in Threads |-> None]
    /\ cycle_stamp = -1

\* calculate_sensor_weight(sw_in) against the latest scan: the weight it
\* returns and the bucket each obstacle was written to.
SensorProbe ==
    /\ sw_out = None
    /\ sw_out' = << calculate_sensor_weight(sw_in, last_lidar, map_obstacles),
                    { <<o, bucket(o, sw_in)>> : o \in map_obstacles } >>
    /\ UNCHANGED <<env_vars, particles, last_pose, last_lidar, is_updating,
                   last_update_real, thread_vars, cycle_stamp, sw_in>>

SpecSensor == SensorInit /\ [][SensorProbe]_vars

----------------------------------------------------------------------------
(* Properties *)

\* Thread t has passed the minimum-motion test and not yet returned from
\* set_particles: it is executing lines 193-209.
InCycle(t) == pc[t] = "cycle"

\* C1: cycles are mutually exclusive: an odometry event that arrives while a
\* cycle is in flight is dropped, so in no reachable state are two
\* invocations of update() both between resampling and set_particles.
C1_MutualExclusion ==
    \A t1, t2 \in Threads : t1 # t2 => ~(InCycle(t1) /\ InCycle(t2))

\* C2: an odometry event older than the last completed cycle's stamp is
\* dropped, and the stamps update() passes to set_particles never decrease.
C2_MonotonicStamps ==
    [][ /\ cycle_stamp' >= cycle_stamp
        /\ \A t \in Threads :
              (pc[t] = "idle" /\ pc'[t] = "set") => msg'[t].stamp >= cycle_stamp ]_vars

\* The displacement of line 176-181 for thread t's message.
DeltaOf(t) ==
    PoseTuple(last_pose[1] - msg[t].pose[1], last_pose[2] - msg[t].pose[2],
              angle_diff(last_pose[3], msg[t].pose[3]))

\* Translation of at least 0.01, or rotation of at least 0.05 either way.
ExceedsMinimumMotion(delta) ==
    ((delta[1] * delta[1]) + (delta[2] * delta[2])) >= 1 \/ Abs(delta[3]) >= 2865

\* C3: with a previous pose and a particle set, an accepted odometry event
\* runs a cycle exactly when its displacement exceeds the minimum-motion
\* threshold in translation or in rotation magnitude; otherwise the cycle is
\* skipped and the particle set is untouched.
C3_CycleIffMoved ==
    [][ \A t \in Threads :
          (pc[t] = "set" /\ pc'[t] # "set" /\ last_pose # None /\ particles # None)
          => /\ (pc'[t] = "cycle") <=> ExceedsMinimumMotion(DeltaOf(t))
             /\ particles' = particles ]_vars

\* C4: once a particle set is stored it always holds exactly NUM_PARTICLES
\* particles.
C4_ConstantSize == particles # None => Len(particles) = NUM_PARTICLES

\* A cycle of update() has stored a set resampled from a stored set.
C4_Witness == cycle_stamp >= 0 /\ Len(particles) = NUM_PARTICLES

\* C5: every stored particle set is normalised: its weights sum to 1.
C5_Normalized ==
    particles # None =>
        /\ \A i \in 1 .. Len(particles) : ~IsNaN(particles[i].weight)
        /\ SeqSum([ i \in 1 .. Len(particles) |-> particles[i].weight.n ])
             = particles[1].weight.d

\* C6: whenever update() is about to call sample_particles on the stored set,
\* the set has a particle of strictly positive weight.
C6_PositiveWeightAtResample ==
    \A t \in Threads :
        InCycle(t) => AnyPositive([ i \in 1 .. Len(particles) |-> particles[i].weight ])

\* C7: every stored particle's theta lies in (-pi, pi].  The end -pi is let
\* through: the lattice of headings meets it exactly, where a floating-point
\* heading would fall to one side of it.
C7_ThetaNormalized ==
    particles # None =>
        \A i \in 1 .. Len(particles) : -PI <= particles[i].theta /\ particles[i].theta <= PI

\* The weight the claim describes: the buckets with a positive reading and a
\* positive difference, and no others.
MaskedWeight(scan, expected) ==
    LET readings == ranges(scan)
        terms == [ b \in 0 .. 359 |->
                     IF readings[b + 1] > 0 /\ Abs(readings[b + 1] - expected[b]) > 0
                     THEN InvCube(Abs(readings[b + 1] - expected[b])) ELSE 0 ]
    IN  SumRange(terms, 0, 359)

\* C8: with a scan present, a bucket contributes (1 / |actual - expected|)^3
\* only if its reading is positive and differs from the expected range; the
\* weight is the sum of the contributing terms.
C8_OnlyPositiveReadingsCount ==
    sw_out # None =>
        sw_out[1] = MaskedWeight(last_lidar, expected_lidar(map_obstacles, sw_in))

\* The robot-relative bearing of o in whole degrees: the world bearing from
\* the particle's position minus the particle's heading, renormalised.
RelativeBearing(o, particle) ==
    rad2deg_round(angle_normalize(
        arctan2(o[2] - particle.y, o[1] - particle.x) - particle.theta))

\* C9: each obstacle is written to a bucket in 0 .. 359, the one of its
\* rounded robot-relative bearing modulo 360.
C9_BucketIsRelativeBearing ==
    sw_out # None =>
        \A e \in sw_out[2] :
            e[2] \in 0 .. 359 /\ e[2] = RelativeBearing(e[1], sw_in) % 360

\* C10: the flag is released on every exit: an invocation that set
\* is_updating leaves it false when it returns, and with no invocation past
\* the guard the flag is false.
C10_FlagReleased ==
    /\ []((\A t \in Threads : pc[t] \in {"idle", "set"}) => ~is_updating)
    /\ [][ \A t \in Threads :
             (pc[t] \in {"cycle", "finally"} /\ pc'[t] = "idle") => ~is_updating' ]_vars

\* An invocation has returned through an exception of set_particles (the
\* stored weights are NaN), and the flag is down.
C10_Witness ==
    /\ particles # None
    /\ IsNaN(particles[1].weight)
    /\ \A t \in Threads : pc[t] = "idle"
    /\ ~is_updating

====
